---- MODULE Spec2Model ----
(***************************************************************************)
(* A model of the order book of src/src/main.rs: the OrderBook struct with *)
(* add_order, sort_books, match_orders, show_book and show_trades, and the *)
(* command loop of main that drives it.                                    *)
(*                                                                         *)
(* Prices and quantities are f64 in the source.  An f64 is modelled as a   *)
(* record [k, hi, lo]:                                                     *)
(*   k = "fin": the number hi * 2^54 + lo, with lo a small integer;        *)
(*   k = "inf": an infinity of sign hi;                                    *)
(*   k = "nan": a NaN.                                                     *)
(* With hi = 0 the value is a small integer, on which f64 arithmetic is    *)
(* exact.  With hi = 1 the value lies next to 2^54, where the 53-bit       *)
(* significand of an f64 holds only every second integer below 2^54 and    *)
(* every fourth above it: Round is IEEE 754 round-to-nearest, ties to      *)
(* even, there.  The non-finite values follow IEEE 754 as Rust's f64 does. *)
(* Every value drawn as an input is one `str::parse::<f64>` returns for a  *)
(* command line: "2", "0", "-1", "18014398509481984", "inf", "NaN".        *)
(***************************************************************************)
EXTENDS Integers, Sequences, FiniteSets

\* ------------------------------------------------------------------ bounds

\* Orders submitted in one run of the program.
MaxOrders == 3
\* Finite prices are 1..MaxPrice.
MaxPrice == 2
\* Finite quantities are -1..MaxQty.
MaxQty == 2

\* --------------------------------------------------------------------- f64

Fin(n) == [k |-> "fin", hi |-> 0, lo |-> n]
\* 2^54 = 18014398509481984.
Big == [k |-> "fin", hi |-> 1, lo |-> 0]
NaN == [k |-> "nan", hi |-> 0, lo |-> 0]
PosInf == [k |-> "inf", hi |-> 1, lo |-> 0]
NegInf == [k |-> "inf", hi |-> 0 - 1, lo |-> 0]

IsNaN(a) == a.k = "nan"
IsFinite(a) == a.k = "fin"

\* lo rounded to the nearest multiple of d, a tie to the multiple of 2d.
RoundTo(lo, d) ==
    LET r == lo % d
        base == lo - r
    IN IF 2 * r < d THEN base
       ELSE IF 2 * r > d THEN base + d
       ELSE IF base % (2 * d) = 0 THEN base ELSE base + d

\* The f64 nearest to the number hi * 2^54 + lo (ties to even), for the
\* results the arithmetic of the model's values has: hi in -1..1.
Round(hi, lo) ==
    IF hi = 1
    THEN [k |-> "fin", hi |-> 1, lo |-> RoundTo(lo, IF lo >= 0 THEN 4 ELSE 2)]
    ELSE IF hi = 0 - 1
    THEN [k |-> "fin", hi |-> hi,
          lo |-> 0 - RoundTo(0 - lo, IF lo <= 0 THEN 4 ELSE 2)]
    ELSE [k |-> "fin", hi |-> hi, lo |-> lo]

\* a < b on f64: false when either is NaN.
FLt(a, b) ==
    /\ ~IsNaN(a)
    /\ ~IsNaN(b)
    /\ \/ /\ a.k = "fin"
          /\ b.k = "fin"
          /\ a.hi < b.hi \/ (a.hi = b.hi /\ a.lo < b.lo)
       \/ a = NegInf /\ b # NegInf
       \/ b = PosInf /\ a # PosInf

\* a == b on f64: false when either is NaN.
FEq(a, b) == ~IsNaN(a) /\ ~IsNaN(b) /\ a = b

\* a >= b on f64: false when either is NaN.
FGe(a, b) == FLt(b, a) \/ FEq(a, b)

\* f64::min: the other operand when one is NaN.
FMin(a, b) ==
    IF IsNaN(a) THEN b
    ELSE IF IsNaN(b) THEN a
    ELSE IF FLt(b, a) THEN b ELSE a

\* a - b on f64.
FSub(a, b) ==
    IF IsNaN(a) \/ IsNaN(b) THEN NaN
    ELSE IF a.k = "fin" /\ b.k = "fin" THEN Round(a.hi - b.hi, a.lo - b.lo)
    ELSE IF a.k = "inf" /\ b.k = "inf" THEN (IF a.hi = b.hi THEN NaN ELSE a)
    ELSE IF a.k = "inf" THEN a
    ELSE [k |-> "inf", hi |-> 0 - b.hi, lo |-> 0]

\* x == 0.0
IsZero(a) == FEq(a, Fin(0))

\* f64::partial_cmp: "None" when either is NaN.
PartialCmp(a, b) ==
    IF IsNaN(a) \/ IsNaN(b) THEN "None"
    ELSE IF FLt(a, b) THEN "Less"
    ELSE IF FLt(b, a) THEN "Greater"
    ELSE "Equal"

\* ------------------------------------------------------------ the records

Buy == "Buy"
Sell == "Sell"

Order(id, order_type, price, quantity) ==
    [id |-> id, order_type |-> order_type, price |-> price, quantity |-> quantity]

Trade(buy_id, sell_id, price, quantity) ==
    [buy_id |-> buy_id, sell_id |-> sell_id, price |-> price, quantity |-> quantity]

\* A remove that takes the last element, whatever k is.
Remove_Last(s, k) == SubSeq(s, 1, Len(s) - 1)

\* Vec::remove(k) with the source's 0-based index k.
Remove(s, k) == SubSeq(s, 1, k) \o SubSeq(s, k + 2, Len(s))

\* ----------------------------------------------------------------- sorting

\* The comparators of sort_books; partial_cmp(..).unwrap_or(Equal) makes a
\* NaN price compare Equal to every price.
BuyCmp(a, b) ==
    LET c == PartialCmp(b.price, a.price) IN IF c = "None" THEN "Equal" ELSE c

SellCmp(a, b) ==
    LET c == PartialCmp(a.price, b.price) IN IF c = "None" THEN "Equal" ELSE c

\* The comparator sort_books uses for the side t, as the is_less of the sort.
IsLess(t, a, b) == (IF t = Buy THEN BuyCmp(a, b) ELSE SellCmp(a, b)) = "Less"

\* slice::sort_by on a slice of at most 20 elements is an insertion sort in
\* every release of the standard library; the releases differ in its
\* direction.  In the later ones (insertion_sort_shift_left) each element
\* is moved left into the sorted prefix before it, past the elements it is
\* less than.
InsertTail(s, x, t) ==
    LET stop == {k \in 1..Len(s) : ~IsLess(t, x, s[k])}
        at == IF stop = {} THEN 1
              ELSE 1 + (CHOOSE k \in stop : \A l \in stop : l <= k)
    IN SubSeq(s, 1, at - 1) \o <<x>> \o SubSeq(s, at, Len(s))

RECURSIVE SortShiftLeft(_, _)
SortShiftLeft(s, t) ==
    IF Len(s) = 0 THEN <<>>
    ELSE InsertTail(SortShiftLeft(SubSeq(s, 1, Len(s) - 1), t), s[Len(s)], t)

\* In the earlier ones (insert_head) each element, from the last but one
\* down to the first, is moved right into the sorted suffix after it, past
\* the elements that are less than it.
InsertHead(x, s, t) ==
    LET stop == {k \in 1..Len(s) : ~IsLess(t, s[k], x)}
        at == IF stop = {} THEN Len(s) + 1
              ELSE CHOOSE k \in stop : \A l \in stop : k <= l
    IN SubSeq(s, 1, at - 1) \o <<x>> \o SubSeq(s, at, Len(s))

RECURSIVE SortInsertHead(_, _)
SortInsertHead(s, t) ==
    IF Len(s) = 0 THEN <<>>
    ELSE InsertHead(s[1], SortInsertHead(SubSeq(s, 2, Len(s)), t), t)

\* What sort_by can leave, by the release the program is built with.  The
\* two agree (on the stable sort) when the comparator is a total order on
\* the slice; with a NaN price in it they need not.
SortOutcomes(s, t) == {SortShiftLeft(s, t), SortInsertHead(s, t)}

\* ---------------------------------------------------------------- matching

\* The machine state of one match_orders call: the two books, the local
\* `trades` vector, the cursors i and j (0-based as in the source), and the
\* position: "outer" (the test of line 63), "inner" (the test of line 65),
\* "after" (line 97), "done" (the loops are left).
MatchStart(buys, sells) ==
    [buy_orders |-> buys, sell_orders |-> sells, trades |-> <<>>,
     i |-> 0, j |-> 0, pc |-> "outer"]

Crosses(buy, sell) == FGe(buy.price, sell.price)

TradeQty(buy, sell) == FMin(buy.quantity, sell.quantity)

\* The other pricing rule, the buy order's price: C3 tells the two apart.
TradePrice_AtBuy(buy, sell) == buy.price

TradePrice(buy, sell) == sell.price

\* One pass through the body of the inner loop (lines 66-94).
InnerBody(st) ==
    LET buy == st.buy_orders[st.i + 1]
        sell == st.sell_orders[st.j + 1]
    IN IF Crosses(buy, sell)
       THEN LET qty == TradeQty(buy, sell)
                trade == Trade(buy.id, sell.id, TradePrice(buy, sell), qty)
                buy2 == [buy EXCEPT !.quantity = FSub(buy.quantity, qty)]
                sell2 == [sell EXCEPT !.quantity = FSub(sell.quantity, qty)]
                sells2 == [st.sell_orders EXCEPT ![st.j + 1] = sell2]
            IN [st EXCEPT
                  !.trades = Append(st.trades, trade),
                  !.buy_orders = [st.buy_orders EXCEPT ![st.i + 1] = buy2],
                  !.sell_orders = IF IsZero(sell2.quantity)
                                  THEN Remove(sells2, st.j) ELSE sells2,
                  !.j = IF IsZero(sell2.quantity) THEN st.j ELSE st.j + 1,
                  !.pc = IF IsZero(buy2.quantity) THEN "after" ELSE "inner"]
       ELSE [st EXCEPT !.j = st.j + 1]

\* Lines 97-101 without the `i += 1` of line 100.
AfterInner_Stay(st) ==
    IF IsZero(st.buy_orders[st.i + 1].quantity)
    THEN [st EXCEPT !.buy_orders = Remove(st.buy_orders, st.i), !.pc = "outer"]
    ELSE [st EXCEPT !.pc = "outer"]

\* After the inner loop (lines 97-101).
AfterInner(st) ==
    IF IsZero(st.buy_orders[st.i + 1].quantity)
    THEN [st EXCEPT !.buy_orders = Remove(st.buy_orders, st.i), !.pc = "outer"]
    ELSE [st EXCEPT !.i = st.i + 1, !.pc = "outer"]

MatchStep(st) ==
    CASE st.pc = "outer" ->
            IF st.i < Len(st.buy_orders)
            THEN [st EXCEPT !.j = 0, !.pc = "inner"]
            ELSE [st EXCEPT !.pc = "done"]
      [] st.pc = "inner" ->
            IF st.j < Len(st.sell_orders)
            THEN InnerBody(st)
            ELSE [st EXCEPT !.pc = "after"]
      [] st.pc = "after" -> AfterInner(st)
      [] OTHER -> st

\* The steps one match_orders call on the books of st can take at most: an
\* outer iteration is the test of line 63, at most one pass through the
\* inner body for each sell order, the failing test of line 65 and line 97;
\* there is at most one outer iteration for each buy order, and a last
\* failing test of line 63.
StepBound(st) == Len(st.buy_orders) * (Len(st.sell_orders) + 3) + 1

\* The machine states from st on, first to last, cut off after fuel steps.
RECURSIVE MatchRun(_, _)
MatchRun(st, fuel) ==
    IF st.pc = "done" \/ fuel = 0 THEN <<st>>
    ELSE <<st>> \o MatchRun(MatchStep(st), fuel - 1)

\* The machine states match_orders goes through, first to last.  The run is
\* cut off at StepBound steps: a run that has not left the loops by then
\* ends in a state whose pc is not "done".
MatchTrace(st) == MatchRun(st, StepBound(st))

\* ------------------------------------------------- the early-exit variant

\* match_orders with one change: the inner scan is left at the first sell
\* order with buy.price < sell.price (a `break` in the else branch of line
\* 92 when that comparison holds) instead of going on to the next one.
EarlyMatchStep(st) ==
    IF /\ st.pc = "inner"
       /\ st.j < Len(st.sell_orders)
       /\ FLt(st.buy_orders[st.i + 1].price, st.sell_orders[st.j + 1].price)
    THEN [st EXCEPT !.pc = "after"]
    ELSE MatchStep(st)

RECURSIVE EarlyMatchRun(_, _)
EarlyMatchRun(st, fuel) ==
    IF st.pc = "done" \/ fuel = 0 THEN <<st>>
    ELSE <<st>> \o EarlyMatchRun(EarlyMatchStep(st), fuel - 1)

\* The books add_order(order) can leave from book when match_orders is the
\* early-exit variant.
EarlyAddOrder(book, order) ==
    LET pushedB == IF order.order_type = Buy
                   THEN Append(book.buy_orders, order) ELSE book.buy_orders
        pushedS == IF order.order_type = Sell
                   THEN Append(book.sell_orders, order) ELSE book.sell_orders
    IN { LET start == MatchStart(sorted[1], sorted[2])
             run == EarlyMatchRun(start, StepBound(start))
             end == run[Len(run)]
         IN [buy_orders |-> end.buy_orders,
             sell_orders |-> end.sell_orders,
             trades |-> book.trades \o end.trades]
         : sorted \in SortOutcomes(pushedB, Buy) \X SortOutcomes(pushedS, Sell) }

\* ------------------------------------------------------------------- state

VARIABLES
    buy_orders,     \* OrderBook.buy_orders
    sell_orders,    \* OrderBook.sell_orders
    trades,         \* OrderBook.trades
    next_id,        \* main's next_id
    running,        \* main has not left the loop of line 149
    output,         \* what the last command printed
    submitted,      \* history: every order passed to add_order, in call order
    before,         \* history: the book as the last add_order call found it
    steps,          \* history: the machine states of the last match_orders
    early           \* the book of the early-exit variant, given the same calls

vars ==
    <<buy_orders, sell_orders, trades, next_id, running, output,
      submitted, before, steps, early>>

Book == [buy_orders |-> buy_orders, sell_orders |-> sell_orders, trades |-> trades]

EmptyBook == [buy_orders |-> <<>>, sell_orders |-> <<>>, trades |-> <<>>]

\* What a command prints: a message, and for the two queries the lines of
\* the orders or trades shown, in the order shown.  A line carries the fields
\* it prints; `{}` of f64 prints different values differently.
Printed(text, buys, sells, ts) ==
    [text |-> text, buy_orders |-> buys, sell_orders |-> sells, trades |-> ts]

Message(text) == Printed(text, <<>>, <<>>, <<>>)

OrderLine(o) == [id |-> o.id, price |-> o.price, quantity |-> o.quantity]

TradeLine(t) ==
    [buy_id |-> t.buy_id, sell_id |-> t.sell_id,
     price |-> t.price, quantity |-> t.quantity]

\* OrderBook::show_book(&self): the book it leaves and what it prints.
show_book(self) ==
    [self |-> self,
     printed |-> Printed("===== order-book =====",
                         [k \in DOMAIN self.buy_orders |-> OrderLine(self.buy_orders[k])],
                         [k \in DOMAIN self.sell_orders |-> OrderLine(self.sell_orders[k])],
                         <<>>)]

\* A show_trades that empties the history it has printed.
show_trades_Draining(self) ==
    [self |-> [self EXCEPT !.trades = <<>>],
     printed |-> Printed("===== trades executed =====", <<>>, <<>>,
                         [k \in DOMAIN self.trades |-> TradeLine(self.trades[k])])]

\* OrderBook::show_trades(&self): the book it leaves and what it prints.
show_trades(self) ==
    [self |-> self,
     printed |-> Printed("===== trades executed =====", <<>>, <<>>,
                         [k \in DOMAIN self.trades |-> TradeLine(self.trades[k])])]

\* What the `add` command can hand to add_order.
OrderTypes == {Buy, Sell}
Prices == {Fin(p) : p \in 1..MaxPrice} \cup {NaN}
Quantities == {Fin(q) : q \in (0 - 1)..MaxQty} \cup {Big, NaN, PosInf}

Init ==
    /\ buy_orders = <<>>
    /\ sell_orders = <<>>
    /\ trades = <<>>
    /\ next_id = 1
    /\ running = TRUE
    /\ output = Message("simple orderbook cli")
    /\ submitted = <<>>
    /\ before = EmptyBook
    /\ steps = <<>>
    /\ early = EmptyBook

\* An add_order that puts the new order in front of its side.
Push_InFront(s, order) == <<order>> \o s

\* Vec::push, lines 45-46.
Push(s, order) == Append(s, order)

\* The other placement, new trades in front of the history: C10 tells the two apart.
ExtendTrades_InFront(history, new) == new \o history

\* self.trades.extend(trades), line 104.
ExtendTrades(history, new) == history \o new

\* OrderBook::add_order: push, sort_books, match_orders.
add_order(order) ==
    LET pushedB == IF order.order_type = Buy
                   THEN Push(buy_orders, order) ELSE buy_orders
        pushedS == IF order.order_type = Sell
                   THEN Push(sell_orders, order) ELSE sell_orders
    IN \E sortedB \in SortOutcomes(pushedB, Buy),
          sortedS \in SortOutcomes(pushedS, Sell) :
          LET run == MatchTrace(MatchStart(sortedB, sortedS))
              end == run[Len(run)]
          IN /\ buy_orders' = end.buy_orders
             /\ sell_orders' = end.sell_orders
             /\ trades' = ExtendTrades(trades, end.trades)
             /\ steps' = run

\* Lines 199-207 of main: the call of add_order with the next id, and what
\* the histories record of it.
Submit(order) ==
    /\ add_order(order)
    /\ next_id' = next_id + 1
    /\ output' = Message("order added.")
    /\ submitted' = Append(submitted, order)
    /\ before' = Book
    /\ early' \in EarlyAddOrder(early, order)
    /\ UNCHANGED running

\* The `add` command of main with arguments that parse: the quantity is
\* drawn from qs, and at most limit orders are submitted.
AddFrom(qs, limit) ==
    /\ running
    /\ next_id <= limit
    /\ \E t \in OrderTypes, p \in Prices, q \in qs :
          Submit(Order(next_id, t, p, q))

Add == AddFrom(Quantities, MaxOrders)

Next == Add

Spec == Init /\ [][Next]_vars

\* The same program over one more order, each of a small quantity > 0.
SmallQuantities == {Fin(q) : q \in 1..MaxQty}

AddSmall == AddFrom(SmallQuantities, MaxOrders + 1)

NextSmall == AddSmall

SpecSmall == Init /\ [][NextSmall]_vars

\* -------------------------------------------------------- the command loop

\* The words of the command lines typed.
TypeWords == {"buy", "SELL", "hold"}
PriceWords == {"1", "0", "NaN", "one"}
QuantityWords == {"2", "1", "0", "inf", "two"}

\* The lines typed, each as main's `parts`: the line split at white space.
Lines ==
    {<<>>, <<"exit">>, <<"EXIT">>, <<"exit", "now">>, <<"book">>, <<"BOOK">>,
     <<"trades">>, <<"add", "buy", "1">>}
    \cup {<<"add", t, p, q>> : t \in TypeWords, p \in PriceWords, q \in QuantityWords}

\* str::to_lowercase on the words typed.
ToLowercase(w) ==
    CASE w = "SELL" -> "sell"
      [] w = "EXIT" -> "exit"
      [] w = "BOOK" -> "book"
      [] OTHER -> w

\* str::parse::<f64> on the words typed: Ok(v) or Err.
ParseF64(w) ==
    CASE w = "0" -> [ok |-> TRUE, v |-> Fin(0)]
      [] w = "1" -> [ok |-> TRUE, v |-> Fin(1)]
      [] w = "2" -> [ok |-> TRUE, v |-> Fin(2)]
      [] w = "inf" -> [ok |-> TRUE, v |-> PosInf]
      [] w = "NaN" -> [ok |-> TRUE, v |-> NaN]
      [] OTHER -> [ok |-> FALSE, v |-> NaN]

\* A command that prints msg and changes nothing else.
Says(msg) ==
    /\ output' = Message(msg)
    /\ UNCHANGED <<buy_orders, sell_orders, trades, next_id, running,
                   submitted, before, steps, early>>

\* Lines 157-160: the whole line is "exit", in either case.
ExitCmd ==
    /\ running
    /\ \E line \in Lines : Len(line) = 1 /\ ToLowercase(line[1]) = "exit"
    /\ running' = FALSE
    /\ output' = Message("exiting...")
    /\ UNCHANGED <<buy_orders, sell_orders, trades, next_id,
                   submitted, before, steps, early>>

\* Lines 162-165: an empty line.
BlankCmd ==
    /\ running
    /\ \E line \in Lines : line = <<>>
    /\ UNCHANGED vars

\* The line is not the exit command and has a first word.
IsCommand(line) ==
    /\ line # <<>>
    /\ ~(Len(line) = 1 /\ ToLowercase(line[1]) = "exit")

\* Lines 168-208: the add command.
AddCmd ==
    /\ running
    /\ \E line \in Lines :
          /\ IsCommand(line)
          /\ line[1] = "add"
          /\ IF Len(line) # 4
             THEN Says("Usage: add <buy/sell> <price> <quantity>")
             ELSE LET t == ToLowercase(line[2])
                      price == ParseF64(line[3])
                      qty == ParseF64(line[4])
                  IN IF t \notin {"buy", "sell"} THEN Says("invalid order type")
                     ELSE IF ~price.ok THEN Says("invalid price")
                     ELSE IF ~qty.ok THEN Says("invalid quantity")
                     ELSE /\ next_id <= MaxOrders - 1
                          /\ Submit(Order(next_id, IF t = "buy" THEN Buy ELSE Sell,
                                          price.v, qty.v))

\* Lines 210-212: the book command.
BookCmd ==
    /\ running
    /\ \E line \in Lines : IsCommand(line) /\ line[1] = "book"
    /\ LET r == show_book(Book)
       IN /\ buy_orders' = r.self.buy_orders
          /\ sell_orders' = r.self.sell_orders
          /\ trades' = r.self.trades
          /\ output' = r.printed
    /\ UNCHANGED <<next_id, running, submitted, before, steps, early>>

\* Lines 214-216: the trades command.
TradesCmd ==
    /\ running
    /\ \E line \in Lines : IsCommand(line) /\ line[1] = "trades"
    /\ LET r == show_trades(Book)
       IN /\ buy_orders' = r.self.buy_orders
          /\ sell_orders' = r.self.sell_orders
          /\ trades' = r.self.trades
          /\ output' = r.printed
    /\ UNCHANGED <<next_id, running, submitted, before, steps, early>>

\* Lines 218-220: any other first word.
UnknownCmd ==
    /\ running
    /\ \E line \in Lines :
          /\ IsCommand(line)
          /\ line[1] \notin {"add", "book", "trades"}
    /\ Says("unknown command. try: add / book / trades / exit")

NextCli == ExitCmd \/ BlankCmd \/ AddCmd \/ BookCmd \/ TradesCmd \/ UnknownCmd

\* The program over every command line, with one order fewer.
SpecCli == Init /\ [][NextCli]_vars

\* ------------------------------------------------------------------ claims

Range(s) == {s[k] : k \in 1..Len(s)}

\* The order the last add_order call was given.
LastOrder == submitted[Len(submitted)]

\* The trades the last add_order call appended.
NewTrades == SubSeq(trades, Len(before.trades) + 1, Len(trades))

\* Every order submitted so far had a finite quantity.
FiniteQuantities == \A o \in Range(submitted) : IsFinite(o.quantity)

\* C1: after every add_order call the book is not crossed: no resting buy
\* has a price >= the price of a resting sell.
C1_NonCrossed ==
    \A b \in Range(buy_orders), s \in Range(sell_orders) : ~FGe(b.price, s.price)
\* An order with a finite price and a finite quantity > 0.
PositiveFinite(o) ==
    IsFinite(o.price) /\ IsFinite(o.quantity) /\ FLt(Fin(0), o.quantity)

\* An order the specification calls well-formed: a finite price and a
\* finite quantity >= 0.
WellFormed(o) ==
    IsFinite(o.price) /\ IsFinite(o.quantity) /\ FGe(o.quantity, Fin(0))

\* Every order submitted so far has a finite price and a finite quantity > 0.
AllPositiveFinite == \A o \in Range(submitted) : PositiveFinite(o)

\* Every order submitted so far has a finite quantity > 0.
PositiveQuantities ==
    \A o \in Range(submitted) : IsFinite(o.quantity) /\ FLt(Fin(0), o.quantity)

\* C2: every trade executes at the price of the order that was resting when
\* the match occurred: a trade of the incoming order executes at the price
\* of its counterparty, whichever side the incoming order is on.  Stated
\* for orders of finite price and finite quantity > 0.
C2_PassivePrice ==
    AllPositiveFinite =>
    \A k \in DOMAIN NewTrades :
        LET t == NewTrades[k] IN
        /\ (LastOrder.order_type = Buy /\ t.buy_id = LastOrder.id)
              => t.price = submitted[t.sell_id].price
        /\ (LastOrder.order_type = Sell /\ t.sell_id = LastOrder.id)
              => t.price = submitted[t.buy_id].price

\* C3: every trade's price is the price of the sell order it names,
\* whichever side the incoming order was on.
C3_TradeAtSellPrice ==
    \A t \in Range(trades) : t.price = submitted[t.sell_id].price

\* C3 witness: an incoming Sell has traded with a resting Buy of a higher
\* price, and the trade carries the Sell's price.
C3_Witness ==
    /\ submitted # <<>>
    /\ LastOrder.order_type = Sell
    /\ \E t \in Range(NewTrades) :
          /\ t.sell_id = LastOrder.id
          /\ FLt(LastOrder.price, submitted[t.buy_id].price)
          /\ t.price = LastOrder.price
\* C4: when every submitted order is well-formed (finite price, finite
\* quantity >= 0), no order with quantity 0 rests in either book after an
\* add_order call.
C4_NoZeroQuantity ==
    (\A o \in Range(submitted) : WellFormed(o))
        => \A o \in Range(buy_orders) \cup Range(sell_orders) : ~IsZero(o.quantity)

\* C5: between calls buy_orders is sorted by price, highest first, and
\* sell_orders lowest first: no order stands before one of a strictly
\* better price.  Stated for orders of finite quantity > 0.
C5_Sorted ==
    PositiveQuantities =>
    /\ \A k, l \in 1..Len(buy_orders) :
          k < l => ~FLt(buy_orders[k].price, buy_orders[l].price)
    /\ \A k, l \in 1..Len(sell_orders) :
          k < l => ~FLt(sell_orders[l].price, sell_orders[k].price)
\* The trades that name order o on its own side.
TradesOf(o) ==
    SelectSeq(trades, LAMBDA t : IF o.order_type = Buy
                                 THEN t.buy_id = o.id ELSE t.sell_id = o.id)

\* Numbers for stating the claims: the pair <<hi, lo>> is hi * 2^54 + lo,
\* with no rounding.
NumOf(a) == <<a.hi, a.lo>>
NumLt(x, y) == x[1] < y[1] \/ (x[1] = y[1] /\ x[2] < y[2])
NumMin(x, y) == IF NumLt(y, x) THEN y ELSE x
NumSub(x, y) == <<x[1] - y[1], x[2] - y[2]>>

\* The exact sum of the (finite) quantities of a sequence of orders or
\* trades.
RECURSIVE ExactSum(_)
ExactSum(ts) ==
    IF ts = <<>> THEN <<0, 0>>
    ELSE LET rest == ExactSum(Tail(ts))
         IN <<rest[1] + Head(ts).quantity.hi, rest[2] + Head(ts).quantity.lo>>

\* The number sum is greater than the finite f64 q.
Exceeds(sum, q) == NumLt(NumOf(q), sum)

\* C6: for every submitted order, the quantities of the trades that name it
\* on its side sum to no more than the quantity it was submitted with.
\* Stated for orders of finite price and finite quantity > 0.
C6_TradedWithinSubmitted ==
    AllPositiveFinite =>
        \A o \in Range(submitted) :
            /\ \A t \in Range(TradesOf(o)) : IsFinite(t.quantity)
            /\ ~Exceeds(ExactSum(TradesOf(o)), o.quantity)
\* Step k of the last match_orders visits a pair: the body of the inner loop
\* runs on buy_orders[i] and sell_orders[j].
IsVisit(k) ==
    /\ k < Len(steps)
    /\ steps[k].pc = "inner"
    /\ steps[k].j < Len(steps[k].sell_orders)

VisitBuy(k) == steps[k].buy_orders[steps[k].i + 1]
VisitSell(k) == steps[k].sell_orders[steps[k].j + 1]

\* The visited pair crosses.
IsCrossingVisit(k) == IsVisit(k) /\ FGe(VisitBuy(k).price, VisitSell(k).price)

\* The quantities the visited orders are left with by step k: the sell
\* order's is 0 when the step has removed it.
BuyAfter(k) == steps[k + 1].buy_orders[steps[k].i + 1].quantity
SellAfter(k) ==
    IF Len(steps[k + 1].sell_orders) < Len(steps[k].sell_orders)
    THEN Fin(0)
    ELSE steps[k + 1].sell_orders[steps[k].j + 1].quantity

\* a - b = c over the numbers, with no rounding.
ExactDiff(a, b, c) ==
    /\ IsFinite(a) /\ IsFinite(b) /\ IsFinite(c)
    /\ c.hi = a.hi - b.hi
    /\ c.lo = a.lo - b.lo

\* C7: each visit of a crossing pair records a trade of quantity
\* min(buy quantity, sell quantity) as they were before the match, and
\* reduces both quantities by exactly that amount, so that one of the two
\* reaches zero.  Stated for orders of finite price and finite quantity > 0.
C7_MatchArithmetic ==
    AllPositiveFinite =>
        \A k \in 1..Len(steps) :
            IsCrossingVisit(k) =>
                LET bq == VisitBuy(k).quantity
                    sq == VisitSell(k).quantity
                    ts == steps[k + 1].trades
                IN /\ Len(ts) = Len(steps[k].trades) + 1
                   /\ ts[Len(ts)].quantity = (IF FLt(sq, bq) THEN sq ELSE bq)
                   /\ ExactDiff(bq, ts[Len(ts)].quantity, BuyAfter(k))
                   /\ ExactDiff(sq, ts[Len(ts)].quantity, SellAfter(k))
                   /\ IsZero(BuyAfter(k)) \/ IsZero(SellAfter(k))
\* The book the last call found is not crossed and holds finite quantities
\* > 0 only.
BeforeNonCrossedPositive ==
    /\ \A b \in Range(before.buy_orders), a \in Range(before.sell_orders) :
          ~FGe(b.price, a.price)
    /\ \A r \in Range(before.buy_orders) \cup Range(before.sell_orders) :
          IsFinite(r.quantity) /\ FLt(Fin(0), r.quantity)

\* The resting orders of the other side that the price of o crosses, as the
\* last call found them.
CrossedBy(o) ==
    IF o.order_type = Buy
    THEN SelectSeq(before.sell_orders, LAMBDA r : FGe(o.price, r.price))
    ELSE SelectSeq(before.buy_orders, LAMBDA r : FGe(r.price, o.price))

\* The trades of the last call that name o on its side.
NewTradesOf(o) ==
    SelectSeq(NewTrades, LAMBDA t : IF o.order_type = Buy
                                    THEN t.buy_id = o.id ELSE t.sell_id = o.id)

\* The orders of id o.id resting on the side of o.
RestingAs(o) ==
    SelectSeq(IF o.order_type = Buy THEN buy_orders ELSE sell_orders,
              LAMBDA r : r.id = o.id)

\* C8: add_order(o) with a finite quantity > 0, on a book that is not crossed
\* and holds finite quantities > 0, trades min(o.quantity, the sum of the
\* resting quantities its price crosses) in all; o then rests with exactly
\* the remainder when that is > 0 and is absent from the book otherwise.
C8_FillAmount ==
    (submitted # <<>> /\ BeforeNonCrossedPositive /\ PositiveFinite(LastOrder)) =>
        LET o == LastOrder
            traded == ExactSum(NewTradesOf(o))
            rest == NumSub(NumOf(o.quantity), traded)
        IN /\ \A t \in Range(NewTradesOf(o)) : IsFinite(t.quantity)
           /\ traded = NumMin(NumOf(o.quantity), ExactSum(CrossedBy(o)))
           /\ IF NumLt(<<0, 0>>, rest)
              THEN /\ Len(RestingAs(o)) = 1
                   /\ IsFinite(RestingAs(o)[1].quantity)
                   /\ NumOf(RestingAs(o)[1].quantity) = rest
              ELSE RestingAs(o) = <<>>
\* The steps of the last match_orders that visit a crossing pair, in order.
MatchSteps == SelectSeq([k \in 1..Len(steps) |-> k], IsCrossingVisit)

\* C9: price priority.  An incoming Sell trades with resting Buy orders by
\* falling price, an incoming Buy with resting Sell orders by rising price,
\* and a resting order does not trade with the incoming order while an order
\* of its side with a strictly better price that crosses too has quantity
\* left.  Stated for orders of finite quantity > 0.
C9_PricePriority ==
    (submitted # <<>> /\ PositiveQuantities) =>
        LET o == LastOrder
            ms == MatchSteps
        IN /\ \A a, b \in 1..Len(ms) :
                 (a < b /\ o.order_type = Sell
                        /\ VisitSell(ms[a]).id = o.id /\ VisitSell(ms[b]).id = o.id)
                     => ~FLt(VisitBuy(ms[a]).price, VisitBuy(ms[b]).price)
           /\ \A a, b \in 1..Len(ms) :
                 (a < b /\ o.order_type = Buy
                        /\ VisitBuy(ms[a]).id = o.id /\ VisitBuy(ms[b]).id = o.id)
                     => ~FLt(VisitSell(ms[b]).price, VisitSell(ms[a]).price)
           /\ \A a \in 1..Len(ms) :
                 (o.order_type = Sell /\ VisitSell(ms[a]).id = o.id)
                     => \A r \in Range(steps[ms[a]].buy_orders) :
                            ~ /\ FLt(VisitBuy(ms[a]).price, r.price)
                              /\ FGe(r.price, o.price)
                              /\ ~IsZero(r.quantity)
           /\ \A a \in 1..Len(ms) :
                 (o.order_type = Buy /\ VisitBuy(ms[a]).id = o.id)
                     => \A r \in Range(steps[ms[a]].sell_orders) :
                            ~ /\ FLt(r.price, VisitSell(ms[a]).price)
                              /\ FGe(o.price, r.price)
                              /\ ~IsZero(r.quantity)
\* C10: the trade history is append-only: the history the call found is a
\* prefix of the history it leaves, and the trades it adds stand in the
\* order in which the matches were executed.
C10_AppendOnly ==
    /\ Len(before.trades) <= Len(trades)
    /\ SubSeq(trades, 1, Len(before.trades)) = before.trades
    /\ Len(NewTrades) = Len(MatchSteps)
    /\ \A k \in 1..Len(NewTrades) :
          /\ NewTrades[k].buy_id = VisitBuy(MatchSteps[k]).id
          /\ NewTrades[k].sell_id = VisitSell(MatchSteps[k]).id

\* C10 witness: a call that found a history of trades has appended two
\* trades, of different orders, to it.
C10_Witness ==
    /\ Len(before.trades) >= 1
    /\ Len(NewTrades) >= 2
    /\ NewTrades[1] # NewTrades[2]
    /\ NewTrades[1] # before.trades[1]

\* The ids of the orders of a sequence.
Ids(s) == {s[k].id : k \in 1..Len(s)}

\* The trade step k of the last match_orders has recorded.
TradeAt(k) == steps[k + 1].trades[Len(steps[k + 1].trades)]

\* C11: the life of an order.  add_order puts the new order, under an id no
\* order had before, with the resting ones and takes none away before the
\* matching; from then on no order enters a book; a sell order leaves only
\* in the match that takes its whole quantity and a buy order only at a
\* quantity of zero; and an order that a match brings to zero has left its
\* book by the time the call's next outer iteration begins.  So no order
\* with quantity left disappears, and an id that has left does not return.
C11_Lifecycle ==
    steps # <<>> =>
    /\ \A k \in 1..(Len(submitted) - 1) : submitted[k].id # LastOrder.id
    /\ Range(steps[1].buy_orders) \cup Range(steps[1].sell_orders)
          = Range(before.buy_orders) \cup Range(before.sell_orders) \cup {LastOrder}
    /\ Len(steps[1].buy_orders) + Len(steps[1].sell_orders)
          = Len(before.buy_orders) + Len(before.sell_orders) + 1
    /\ buy_orders = steps[Len(steps)].buy_orders
    /\ sell_orders = steps[Len(steps)].sell_orders
    /\ \A k \in 1..(Len(steps) - 1) :
          LET a == steps[k]
              b == steps[k + 1]
          IN /\ Ids(b.buy_orders) \subseteq Ids(a.buy_orders)
             /\ Ids(b.sell_orders) \subseteq Ids(a.sell_orders)
             /\ \A r \in Range(a.sell_orders) :
                   r.id \notin Ids(b.sell_orders) =>
                      /\ IsCrossingVisit(k)
                      /\ VisitSell(k) = r
                      /\ IsFinite(r.quantity)
                      /\ TradeAt(k).quantity = r.quantity
             /\ \A r \in Range(a.buy_orders) :
                   r.id \notin Ids(b.buy_orders) =>
                      /\ a.pc = "after"
                      /\ r = a.buy_orders[a.i + 1]
                      /\ IsZero(r.quantity)
             /\ IsCrossingVisit(k) =>
                   /\ (IsFinite(VisitSell(k).quantity)
                          /\ FEq(VisitSell(k).quantity, TradeAt(k).quantity))
                         => VisitSell(k).id \notin Ids(b.sell_orders)
                   /\ (IsFinite(VisitBuy(k).quantity)
                          /\ FEq(VisitBuy(k).quantity, TradeAt(k).quantity))
                         => /\ b.pc = "after"
                            /\ VisitBuy(k).id \notin Ids(steps[k + 2].buy_orders)

\* C11 witness: in one call a resting order has traded its whole quantity
\* and left, and the incoming order rests with what is left of its own.
C11_Witness ==
    /\ steps # <<>>
    /\ AllPositiveFinite
    /\ \E r \in Range(before.buy_orders) \cup Range(before.sell_orders) :
          /\ r.id \notin Ids(buy_orders) \cup Ids(sell_orders)
          /\ \E t \in Range(NewTrades) : t.quantity = r.quantity
    /\ \E r \in Range(buy_orders) \cup Range(sell_orders) :
          /\ r.id = LastOrder.id
          /\ FLt(r.quantity, LastOrder.quantity)

\* The book the last call found is not crossed.
BeforeNonCrossed ==
    \A b \in Range(before.buy_orders), a \in Range(before.sell_orders) :
        ~FGe(b.price, a.price)

\* C12: when the book add_order(o) finds is not crossed and the price of o
\* crosses no resting order of the other side, the call appends no trade,
\* every order that was resting is still resting with its id, price and
\* quantity, and o rests with the quantity it was submitted with.
C12_NonCrossingRests ==
    (submitted # <<>> /\ BeforeNonCrossed /\ CrossedBy(LastOrder) = <<>>) =>
        /\ NewTrades = <<>>
        /\ Range(before.buy_orders) \subseteq Range(buy_orders)
        /\ Range(before.sell_orders) \subseteq Range(sell_orders)
        /\ Len(RestingAs(LastOrder)) = 1
        /\ RestingAs(LastOrder)[1] = LastOrder
        /\ Len(buy_orders) + Len(sell_orders)
              = Len(before.buy_orders) + Len(before.sell_orders) + 1

\* C13: main hands add_order only orders with a finite price > 0 and a
\* finite quantity > 0, whatever lines are typed.
C13_Validated ==
    \A o \in Range(submitted) :
        /\ IsFinite(o.price)
        /\ FLt(Fin(0), o.price)
        /\ IsFinite(o.quantity)
        /\ FLt(Fin(0), o.quantity)

\* C14: a step of the command loop that is no add_order call (next_id stays)
\* leaves buy_orders, sell_orders and trades as they are, and what a query
\* prints is the book, or the trade history, as it stands: queries with no
\* add_order between them show the same contents.
C14_QueriesPure ==
    [][next_id' = next_id =>
          /\ UNCHANGED <<buy_orders, sell_orders, trades>>
          /\ output'.text = show_book(Book).printed.text
                => output' = show_book(Book).printed
          /\ output'.text = show_trades(Book).printed.text
                => output' = show_trades(Book).printed]_vars

\* C14 witness: the trades command has printed a history that is not empty,
\* with an order resting in the book.
C14_Witness ==
    /\ output = show_trades(Book).printed
    /\ trades # <<>>
    /\ buy_orders # <<>>
    /\ AllPositiveFinite

\* C15: the early-exit variant of match_orders, given the same add_order
\* calls as the program, has the same buy_orders, sell_orders and trades
\* after every call.
C15_EarlyExitSame == early = Book

\* Step k of the last match_orders is a pass through lines 97-101.
IsAfter(k) == k < Len(steps) /\ steps[k].pc = "after"

\* C16: every match_orders call leaves its loops, within StepBound steps:
\* each pass through the inner body either advances j or removes a sell
\* order, each outer iteration either advances i or removes a buy order,
\* and neither cursor goes back nor a book grows meanwhile.
C16_Terminates ==
    steps # <<>> =>
    /\ steps[Len(steps)].pc = "done"
    /\ Len(steps) <= StepBound(steps[1]) + 1
    /\ \A k \in 1..(Len(steps) - 1) :
          LET a == steps[k]
              b == steps[k + 1]
          IN /\ IsVisit(k) =>
                   /\ b.i = a.i
                   /\ b.buy_orders = a.buy_orders \/ IsCrossingVisit(k)
                   /\ Len(b.buy_orders) = Len(a.buy_orders)
                   /\ \/ b.j = a.j + 1 /\ Len(b.sell_orders) = Len(a.sell_orders)
                      \/ b.j = a.j /\ Len(b.sell_orders) = Len(a.sell_orders) - 1
             /\ IsAfter(k) =>
                   /\ b.sell_orders = a.sell_orders
                   /\ \/ b.i = a.i + 1 /\ Len(b.buy_orders) = Len(a.buy_orders)
                      \/ b.i = a.i /\ Len(b.buy_orders) = Len(a.buy_orders) - 1
             /\ (~IsVisit(k) /\ ~IsAfter(k)) =>
                   /\ b.i = a.i
                   /\ b.buy_orders = a.buy_orders
                   /\ b.sell_orders = a.sell_orders

\* C16 witness: a call of two outer iterations at least, in which a pass
\* through the inner body advanced j, another removed a sell order, and an
\* outer iteration removed a buy order.
C16_Witness ==
    /\ steps # <<>>
    /\ AllPositiveFinite
    /\ Len(SelectSeq([k \in 1..Len(steps) |-> k], IsAfter)) >= 2
    /\ \E k \in 1..Len(steps) : IsVisit(k) /\ steps[k + 1].j = steps[k].j + 1
    /\ \E k \in 1..Len(steps) :
          IsVisit(k) /\ Len(steps[k + 1].sell_orders) < Len(steps[k].sell_orders)
    /\ \E k \in 1..Len(steps) :
          IsAfter(k) /\ Len(steps[k + 1].buy_orders) < Len(steps[k].buy_orders)

\* The order of the other side that trade t of the last call matched the
\* incoming order with, as the call found it; <<>> when t does not name the
\* incoming order, or names no order that was resting.
CounterpartyOf(t) ==
    IF LastOrder.order_type = Buy
    THEN SelectSeq(before.sell_orders,
                   LAMBDA r : t.buy_id = LastOrder.id /\ r.id = t.sell_id)
    ELSE SelectSeq(before.buy_orders,
                   LAMBDA r : t.sell_id = LastOrder.id /\ r.id = t.buy_id)

\* The resting orders of the side opposite to the incoming order, as the
\* last call found them.
BeforeOpposite ==
    IF LastOrder.order_type = Buy THEN before.sell_orders ELSE before.buy_orders

\* C17: time priority among equal prices.  In each book, of two orders of
\* equal price the one submitted earlier stands first; and an incoming order
\* trades with a resting order only after it has traded with every resting
\* order of the same price that was submitted earlier.
C17_TimePriority ==
    /\ \A k, l \in 1..Len(buy_orders) :
          (k < l /\ FEq(buy_orders[k].price, buy_orders[l].price))
              => buy_orders[k].id < buy_orders[l].id
    /\ \A k, l \in 1..Len(sell_orders) :
          (k < l /\ FEq(sell_orders[k].price, sell_orders[l].price))
              => sell_orders[k].id < sell_orders[l].id
    /\ submitted # <<>> =>
          \A b \in 1..Len(NewTrades) :
              \A later \in Range(CounterpartyOf(NewTrades[b])) :
                  \A earlier \in Range(BeforeOpposite) :
                      (earlier.id < later.id /\ FEq(earlier.price, later.price))
                          => \E a \in 1..(b - 1) :
                                earlier \in Range(CounterpartyOf(NewTrades[a]))

\* C17 witness: the incoming order has traded with two resting orders of one
\* price, with the earlier submitted first, and the later one is left with
\* part of its quantity.
C17_Witness ==
    /\ submitted # <<>>
    /\ AllPositiveFinite
    /\ Len(NewTrades) = 2
    /\ \E x \in Range(CounterpartyOf(NewTrades[1])),
          y \in Range(CounterpartyOf(NewTrades[2])) :
          /\ FEq(x.price, y.price)
          /\ x.id < y.id
          /\ y.id \in Ids(buy_orders) \cup Ids(sell_orders)

\* Every order submitted so far has a quantity > 0.
QuantitiesAboveZero == \A o \in Range(submitted) : FLt(Fin(0), o.quantity)

\* C18: when every submitted quantity is > 0, every trade that add_order(o)
\* appends has o as its buy order when o is a Buy and as its sell order when
\* o is a Sell: two orders that were resting do not trade with each other.
C18_IncomingIsParty ==
    (submitted # <<>> /\ QuantitiesAboveZero) =>
        \A t \in Range(NewTrades) :
            IF LastOrder.order_type = Buy
            THEN t.buy_id = LastOrder.id
            ELSE t.sell_id = LastOrder.id

\* The quantity order o rests with now: 0 when it is no longer in its book.
RestingQuantity(o) ==
    IF RestingAs(o) = <<>> THEN Fin(0) ELSE RestingAs(o)[1].quantity

\* C19: conservation.  For every submitted order, the quantity it was
\* submitted with is, exactly, the quantity it rests with (0 when it has
\* left the book) plus the sum of the quantities of the trades that name it
\* on its side.  Stated for orders of finite price and finite quantity > 0.
C19_Conservation ==
    AllPositiveFinite =>
        \A o \in Range(submitted) :
            /\ IsFinite(RestingQuantity(o))
            /\ \A t \in Range(TradesOf(o)) : IsFinite(t.quantity)
            /\ NumSub(NumOf(o.quantity), ExactSum(TradesOf(o)))
                  = NumOf(RestingQuantity(o))

\* C20: when every submitted quantity is > 0, every trade in the history has
\* a quantity > 0 and no two trades name the same buy order and the same
\* sell order.
C20_PositiveDistinctTrades ==
    QuantitiesAboveZero =>
        /\ \A t \in Range(trades) : FLt(Fin(0), t.quantity)
        /\ \A a, b \in 1..Len(trades) :
              a < b => ~ /\ trades[a].buy_id = trades[b].buy_id
                         /\ trades[a].sell_id = trades[b].sell_id

====
